---- MODULE Spec2Model ----
(***************************************************************************)
(* The real-time chat layer of bookmyseva-server: the socket.io handlers   *)
(* of src/index.js (and their copy in src/services/r2Service.js), the      *)
(* session, message and intent stores they share, and the REST reads of    *)
(* src/routes/storage.js.                                                  *)
(*                                                                         *)
(* Granularity: every awaited persistence call is one step.  A step is the *)
(* execution of the persistence call together with the synchronous code    *)
(* that follows it up to the next awaited call; the synchronous prefix of  *)
(* a handler belongs to the step of its first persistence call.            *)
(***************************************************************************)
EXTENDS Integers, Sequences, FiniteSets, TLC

VARIABLES
    sessions,   \* ChatSession collection: storage id -> document
    messages,   \* ChatMessage collection: set of documents
    intents,    \* BotIntent collection: id -> document
    cache,      \* socket.userId / socket.guestId / socket.guestDetails
    rooms,      \* rooms each socket has joined (besides the room of its own id)
    connected,  \* sockets that have not disconnected
    inflight,   \* handler invocations and timers suspended at an await
    nOps,       \* events so far: socket events, REST requests, clock changes
    nSess,      \* session ids allocated so far
    nMsg,       \* message ids allocated so far
    now,        \* the reading of Date.now()
    last,       \* the step taken last and the events it emitted
    svc,        \* the intent recognition service: its cached intents, whether
                \* its constructor's load has completed, what it returned last
    otp         \* the Otp collection, and the verifications that have passed
                \* the comparison of verifyOtp

vars == <<sessions, messages, intents, cache, rooms, connected, inflight,
          nOps, nSess, nMsg, now, last, svc, otp>>

-----------------------------------------------------------------------------
(* Bounds and domains *)

MaxOps == 3
MaxOpsSeq == 3
MaxOpsGuest == 3
MaxOpsLive == 2
MaxOpsFail == 2
MaxOpsIntent == 4
MaxOpsCount == 2
MaxOpsHard == 3
MaxOpsOrder == 3
MaxOpsOtp == 4
MaxTimeOtp == 4
MaxTime == 1

None == "none"
Conns == {"c1", "c2"}
SessionIds == <<"s1", "s2", "s3", "s4", "s5", "s6">>
Times == 0..MaxTime
UserVals == {None, "u1"}
GuestVals == {None, "g1"}

EmptyDetails == [name |-> None, phone |-> None]
D1 == [name |-> "n1", phone |-> None]
DetailVals == {EmptyDetails, D1}

T_Ab == <<"A", "b">>
T_c == <<"c">>
Texts == {T_Ab, T_c}
T_7 == <<"7">>
\* what a client puts in data.message: a string, or a value of another type
\* (the number 7), given with the string the schema's String path casts it to
Payloads == {[isString |-> TRUE, text |-> t] : t \in Texts}
               \cup {[isString |-> FALSE, text |-> T_7]}

Fallback == <<"I'm not sure I understand. Would you like to speak to a human agent?">>

IntentIds == {"i1", "i2"}
SeedIntents ==
    [i \in IntentIds |->
        IF i = "i1"
        THEN [intent |-> "Greeting", keywords |-> {<<"a">>}, response |-> <<"R1">>,
              priority |-> 10, isActive |-> TRUE, matchCount |-> 0]
        ELSE [intent |-> "Book Seva", keywords |-> {<<"B">>}, response |-> <<"R2">>,
              priority |-> 8, isActive |-> TRUE, matchCount |-> 0]]

NoSess == [id |-> None, userId |-> None, guestId |-> None, socketId |-> None,
           isActive |-> FALSE, isDeleted |-> FALSE, lastActivity |-> 0,
           guestDetails |-> EmptyDetails]

-----------------------------------------------------------------------------
(* JavaScript and library helpers *)

\* if (userId) ... : truthiness of an identity value
Truthy(v) == v \notin {None, ""}

\* a || b
OrElse(a, b) == IF Truthy(a) THEN a ELSE b

ToLowerChar(ch) == CASE ch = "A" -> "a" [] ch = "B" -> "b" [] OTHER -> ch

\* String.prototype.toLowerCase
ToLowerCase(s) == [i \in 1..Len(s) |-> ToLowerChar(s[i])]

\* String.prototype.includes
Includes(s, k) == \E i \in 0..(Len(s) - Len(k)) : SubSeq(s, i + 1, i + Len(k)) = k

\* { ...old, ...new }
MergeDetails(old, new) ==
    [f \in DOMAIN old |-> IF new[f] # None THEN new[f] ELSE old[f]]

\* new ObjectId().toString() of the k-th session document
SessionId(k) == SessionIds[k]

\* a well-formed id that names no document
StrayId == "s0"

\* the strings mongoose casts to an ObjectId
IsObjectId(s) == s = StrayId \/ \E k \in 1..Len(SessionIds) : SessionIds[k] = s

\* mutant: io.emit where the code has socket.emit
ToSocket_Broadcast(c, conn) == {x \in Conns : conn[x]}

\* socket.emit: the packet goes to the socket itself, if it is still connected
ToSocket(c, conn) == IF conn[c] THEN {c} ELSE {}

\* mutant: the broadcast goes to the sockets that joined some room
ToAll_Joined(conn) == {c \in Conns : conn[c] /\ rooms[c] # {}}

\* io.emit: every connected socket
ToAll(conn) == {c \in Conns : conn[c]}

\* io.to(room).emit: the connected sockets in the room; every socket is in
\* the room named by its own id
ToRoom(room, rms, conn) == {c \in Conns : conn[c] /\ (c = room \/ room \in rms[c])}

Emit(ev, to, data) == [event |-> ev, to |-> to, data |-> data]

-----------------------------------------------------------------------------
(* Session resolution *)

\* mutant: the guest id is tried before the user id
IdentityQuery_GuestFirst(userId, guestId, c) ==
    IF Truthy(guestId) THEN [field |-> "guestId", value |-> guestId]
    ELSE IF Truthy(userId) THEN [field |-> "userId", value |-> userId]
    ELSE [field |-> "socketId", value |-> c]

\* the query of join_session and send_message
IdentityQuery(userId, guestId, c) ==
    IF Truthy(userId) THEN [field |-> "userId", value |-> userId]
    ELSE IF Truthy(guestId) THEN [field |-> "guestId", value |-> guestId]
    ELSE [field |-> "socketId", value |-> c]

\* the documents a ChatSession.findOne(query) may return (no sort is given,
\* so any matching document may be the one returned)
FindSessions(store, q) == {id \in DOMAIN store : store[id][q.field] = q.value}

\* session.guestId || session.userId || session._id.toString()
RoomName(s) == OrElse(s.guestId, OrElse(s.userId, s.id))

\* document.save() of a loaded document: mongoose writes the paths whose
\* value differs from the loaded one
SaveModified(store, loaded, doc) ==
    [store EXCEPT ![doc.id] =
        [f \in DOMAIN doc |-> IF doc[f] # loaded[f] THEN doc[f] ELSE store[doc.id][f]]]

-----------------------------------------------------------------------------
(* Message history *)

MessagesOf(msgs, sid) == {m \in msgs : m.sessionId = sid}

RECURSIVE SortByCreatedAt_Desc(_)
\* mutant: .sort({ createdAt: -1 })
SortByCreatedAt_Desc(S) ==
    IF S = {} THEN <<>>
    ELSE LET m == CHOOSE x \in S : \A y \in S :
                      x.createdAt > y.createdAt
                      \/ (x.createdAt = y.createdAt /\ x.id <= y.id)
         IN <<m>> \o SortByCreatedAt_Desc(S \ {m})

RECURSIVE SortByCreatedAt(_)
\* .sort({ createdAt: 1 }); documents of equal createdAt in storage order
SortByCreatedAt(S) ==
    IF S = {} THEN <<>>
    ELSE LET m == CHOOSE x \in S : \A y \in S :
                      x.createdAt < y.createdAt
                      \/ (x.createdAt = y.createdAt /\ x.id <= y.id)
         IN <<m>> \o SortByCreatedAt(S \ {m})

\* ChatMessage.find({ sessionId }).sort({ createdAt: 1 })
History(msgs, sid) == SortByCreatedAt(MessagesOf(msgs, sid))

NewMessage(id, sid, sender, text, isRead, t, op) ==
    [id |-> id, sessionId |-> sid, sender |-> sender, message |-> text,
     isRead |-> isRead, isDeleted |-> FALSE, createdAt |-> t, op |-> op]

-----------------------------------------------------------------------------
(* Session listing: GET /sessions *)

\* req.query.status: absent, 'active' or 'inactive'
StatusVals == {None, "active", "inactive"}

\* query = {}; if (status === 'active') query.isActive = true;
\* if (status === 'inactive') query.isActive = false
SessionQuery(store, status) ==
    {id \in DOMAIN store :
        /\ status = "active" => store[id].isActive
        /\ status = "inactive" => ~store[id].isActive}

RECURSIVE SortByLastActivityDesc(_, _)
\* .sort({ lastActivity: -1 }) over the ids S of the store
SortByLastActivityDesc(store, S) ==
    IF S = {} THEN <<>>
    ELSE LET i == CHOOSE x \in S : \A y \in S :
                      store[x].lastActivity >= store[y].lastActivity
         IN <<i>> \o SortByLastActivityDesc(store, S \ {i})

\* ChatSession.find(query).sort({ lastActivity: -1 }): the ids of the
\* documents in the response (the page holds 50, more than the store has)
ListSessions(store, status) ==
    SortByLastActivityDesc(store, SessionQuery(store, status))

-----------------------------------------------------------------------------
(* Intent matching of send_message *)

RECURSIVE SortByPriorityDesc(_, _)
\* .sort({ priority: -1 }) over the ids S of the store
SortByPriorityDesc(store, S) ==
    IF S = {} THEN <<>>
    ELSE LET i == CHOOSE x \in S : \A y \in S : store[x].priority >= store[y].priority
         IN <<i>> \o SortByPriorityDesc(store, S \ {i})

\* mutant: BotIntent.find() without the isActive filter
FindActiveIntents_All(store) == SortByPriorityDesc(store, DOMAIN store)

\* BotIntent.find({ isActive: true }).sort({ priority: -1 })
FindActiveIntents(store) ==
    SortByPriorityDesc(store, {i \in DOMAIN store : store[i].isActive})

\* mutant: the keyword is compared as stored, without toLowerCase
KeywordHit_CaseSensitive(doc, text) ==
    LET lowerMsg == ToLowerCase(text)
    IN \E k \in doc.keywords : Includes(lowerMsg, k)

\* intent.keywords.some(k => lowerMsg.includes(k.toLowerCase()))
KeywordHit(doc, text) ==
    LET lowerMsg == ToLowerCase(text)
    IN \E k \in doc.keywords : Includes(lowerMsg, ToLowerCase(k))

\* for (const intent of intents) { if (...) { matchedIntent = intent; break; } }
MatchIntent(store, found, text) ==
    LET hits == {n \in 1..Len(found) : KeywordHit(store[found[n]], text)}
    IN IF hits = {} THEN None
       ELSE found[CHOOSE n \in hits : \A k \in hits : n <= k]

-----------------------------------------------------------------------------
(* Suspended invocations *)

Invocation(op, kind, c, pc, userId, guestId, text, sess, doc) ==
    [op |-> op, kind |-> kind, conn |-> c, pc |-> pc, userId |-> userId,
     guestId |-> guestId, text |-> text, sess |-> sess, doc |-> doc,
     matched |-> None, reply |-> <<>>, seen |-> SeedIntents, isString |-> TRUE,
     emitted |-> 0, loaded |-> <<>>]

Step(act, c, op, arg, emits) ==
    [act |-> act, conn |-> c, op |-> op, arg |-> arg, emits |-> emits]

NoArg == [userId |-> None, guestId |-> None, guestDetails |-> EmptyDetails,
          text |-> <<>>, sessionId |-> None, seen |-> SeedIntents, messageId |-> 0,
          loaded |-> <<>>]

Init ==
    /\ sessions = [id \in {} |-> NoSess]
    /\ messages = {}
    /\ intents = SeedIntents
    /\ cache = [c \in Conns |-> [userId |-> None, guestId |-> None,
                                 guestDetails |-> EmptyDetails]]
    /\ rooms = [c \in Conns |-> {}]
    /\ connected = [c \in Conns |-> TRUE]
    /\ inflight = {}
    /\ nOps = 0
    /\ nSess = 0
    /\ nMsg = 0
    /\ now = 0
    /\ last = Step("init", None, 0, NoArg, <<>>)
    /\ svc = [loaded |-> <<>>, booted |-> FALSE, result |-> {}]
    /\ otp = [store |-> {}, passed |-> {}]

-----------------------------------------------------------------------------
(* join_session *)

\* mutant: the supplied details replace the stored ones
JoinUpdate_Replace(s, c, details) ==
    [s EXCEPT !.socketId = c, !.isActive = TRUE, !.guestDetails = details]

\* the found branch up to session.save(): the loaded document as modified
JoinUpdate(s, c, details) ==
    [s EXCEPT !.socketId = c, !.isActive = TRUE,
              !.guestDetails = MergeDetails(s.guestDetails, details)]

JoinSession(c, userId, guestId, details) ==
    /\ UNCHANGED <<svc, otp>>
    /\ connected[c]
    /\ nOps' = nOps + 1
    /\ cache' = [cache EXCEPT ![c] = [userId |-> userId, guestId |-> guestId,
                                      guestDetails |-> details]]
    /\ LET found == FindSessions(sessions, IdentityQuery(userId, guestId, c))
           arg == [NoArg EXCEPT !.userId = userId, !.guestId = guestId,
                                !.guestDetails = details]
       IN IF found = {}
          THEN /\ rooms' = [rooms EXCEPT ![c] = IF Truthy(guestId) THEN @ \cup {guestId} ELSE @]
               /\ last' = Step("join_session", c, nOps + 1, arg,
                               <<Emit("session_joined", ToSocket(c, connected),
                                      [sessionId |-> None, messages |-> <<>>])>>)
               /\ UNCHANGED inflight
          ELSE \E id \in found :
               /\ inflight' = inflight \cup
                     {Invocation(nOps + 1, "join", c, "save", userId, guestId, <<>>,
                                 sessions[id], JoinUpdate(sessions[id], c, details))}
               /\ last' = Step("join_session", c, nOps + 1, arg, <<>>)
               /\ UNCHANGED rooms
    /\ UNCHANGED <<sessions, messages, intents, connected, nSess, nMsg, now>>

\* session.save() of join_session, then the two socket.join calls
JoinSave(h) ==
    /\ UNCHANGED <<svc, otp>>
    /\ h.kind = "join" /\ h.pc = "save"
    /\ IF h.doc.id \in DOMAIN sessions
       THEN /\ sessions' = SaveModified(sessions, h.sess, h.doc)
            /\ rooms' = [rooms EXCEPT ![h.conn] = @ \cup {RoomName(h.doc), h.doc.id}]
            /\ inflight' = (inflight \ {h}) \cup {[h EXCEPT !.pc = "history"]}
            /\ last' = Step("join_save", h.conn, h.op, NoArg, <<>>)
       ELSE \* DocumentNotFoundError, caught by the handler
            /\ inflight' = inflight \ {h}
            /\ last' = Step("join_error", h.conn, h.op, NoArg, <<>>)
            /\ UNCHANGED <<sessions, rooms>>
    /\ UNCHANGED <<messages, intents, cache, connected, nOps, nSess, nMsg, now>>

\* ChatMessage.find(...).sort(...) of join_session, then the session_joined emit
JoinHistory(h) ==
    /\ UNCHANGED <<svc, otp>>
    /\ h.kind = "join" /\ h.pc = "history"
    /\ inflight' = inflight \ {h}
    /\ last' = Step("join_history", h.conn, h.op, NoArg,
                    <<Emit("session_joined", ToSocket(h.conn, connected),
                           [sessionId |-> h.doc.id,
                            messages |-> History(messages, h.doc.id)])>>)
    /\ UNCHANGED <<sessions, messages, intents, cache, rooms, connected,
                   nOps, nSess, nMsg, now>>

-----------------------------------------------------------------------------
(* send_message *)

\* mutant: the identity cached by join_session is not used
NewSession_PayloadOnly(id, userId, guestId, c, cached, t) ==
    [id |-> id, userId |-> OrElse(userId, None), guestId |-> guestId,
     socketId |-> c, isActive |-> TRUE, isDeleted |-> FALSE,
     lastActivity |-> t, guestDetails |-> EmptyDetails]

\* new ChatSession({ ... }) of the lazy-create branch
NewSession(id, userId, guestId, c, cached, t) ==
    [id |-> id, userId |-> OrElse(userId, None),
     guestId |-> OrElse(guestId, cached.guestId),
     socketId |-> c, isActive |-> TRUE, isDeleted |-> FALSE,
     lastActivity |-> t, guestDetails |-> cached.guestDetails]

Insert(store, doc) ==
    [id \in DOMAIN store \cup {doc.id} |-> IF id = doc.id THEN doc ELSE store[id]]

SendMessage(c, userId, guestId, message) ==
    /\ UNCHANGED <<svc, otp>>
    /\ connected[c]
    /\ nOps' = nOps + 1
    /\ LET found == FindSessions(sessions, IdentityQuery(userId, guestId, c))
       IN IF found = {}
          THEN LET doc == NewSession(SessionId(nSess + 1), userId, guestId, c, cache[c], now)
               IN /\ inflight' = inflight \cup
                        {[Invocation(nOps + 1, "send", c, "create", userId, guestId,
                                     message.text, NoSess, doc)
                            EXCEPT !.isString = message.isString]}
                  /\ nSess' = nSess + 1
          ELSE \E id \in found :
               /\ inflight' = inflight \cup
                     {[Invocation(nOps + 1, "send", c, "saveMsg", userId, guestId,
                                  message.text, sessions[id], sessions[id])
                         EXCEPT !.isString = message.isString]}
               /\ UNCHANGED nSess
    /\ last' = Step("send_message", c, nOps + 1,
                    [NoArg EXCEPT !.userId = userId, !.guestId = guestId,
                                  !.text = message.text],
                    <<>>)
    /\ UNCHANGED <<sessions, messages, intents, cache, rooms, connected, nMsg, now>>

\* session.save() of the new session, then the two socket.join calls
SendCreate(h) ==
    /\ UNCHANGED <<svc, otp>>
    /\ h.kind = "send" /\ h.pc = "create"
    /\ sessions' = Insert(sessions, h.doc)
    /\ rooms' = [rooms EXCEPT ![h.conn] = @ \cup {RoomName(h.doc), h.doc.id}]
    /\ inflight' = (inflight \ {h}) \cup {[h EXCEPT !.pc = "saveMsg", !.sess = h.doc]}
    /\ last' = Step("send_create", h.conn, h.op, NoArg, <<>>)
    /\ UNCHANGED <<messages, intents, cache, connected, nOps, nSess, nMsg, now>>

\* mutant: the session takes the guest id of the payload
SendSaveMsg_Rebind(h) ==
    /\ UNCHANGED <<svc, otp>>
    /\ h.kind = "send" /\ h.pc = "saveMsg"
    /\ messages' = messages \cup
          {NewMessage(nMsg + 1, h.doc.id, "user", h.text, FALSE, now, h.op)}
    /\ nMsg' = nMsg + 1
    /\ inflight' = (inflight \ {h}) \cup
          {[h EXCEPT !.pc = "saveSess",
                     !.doc = [h.doc EXCEPT !.lastActivity = now, !.isActive = TRUE,
                                           !.guestId = OrElse(h.guestId, @)]]}
    /\ last' = Step("send_msg", h.conn, h.op, NoArg, <<>>)
    /\ UNCHANGED <<sessions, intents, cache, rooms, connected, nOps, nSess, now>>

\* userMsg.save(), then session.lastActivity = Date.now(); session.isActive = true
SendSaveMsg(h) ==
    /\ UNCHANGED <<svc, otp>>
    /\ h.kind = "send" /\ h.pc = "saveMsg"
    /\ messages' = messages \cup
          {NewMessage(nMsg + 1, h.doc.id, "user", h.text, FALSE, now, h.op)}
    /\ nMsg' = nMsg + 1
    /\ inflight' = (inflight \ {h}) \cup
          {[h EXCEPT !.pc = "saveSess",
                     !.doc = [h.doc EXCEPT !.lastActivity = now, !.isActive = TRUE]]}
    /\ last' = Step("send_msg", h.conn, h.op, NoArg, <<>>)
    /\ UNCHANGED <<sessions, intents, cache, rooms, connected, nOps, nSess, now>>

\* session.save() after the user message, then the echo and admin_new_message
SendSaveSession(h) ==
    /\ UNCHANGED <<svc, otp>>
    /\ h.kind = "send" /\ h.pc = "saveSess"
    /\ IF h.doc.id \in DOMAIN sessions
       THEN /\ sessions' = SaveModified(sessions, h.sess, h.doc)
            /\ inflight' = (inflight \ {h}) \cup
                  {[h EXCEPT !.pc = "intents", !.emitted = 2]}
            /\ last' = Step("send_sess", h.conn, h.op, NoArg,
                            <<Emit("message", ToSocket(h.conn, connected),
                                   [sender |-> "user", op |-> h.op]),
                              Emit("admin_new_message", ToAll(connected),
                                   [sessionId |-> h.doc.id, session |-> h.doc])>>)
       ELSE \* DocumentNotFoundError, caught by the handler
            /\ inflight' = inflight \ {h}
            /\ last' = Step("send_error", h.conn, h.op, NoArg, <<>>)
            /\ UNCHANGED sessions
    /\ UNCHANGED <<messages, intents, cache, rooms, connected, nOps, nSess, nMsg, now>>

\* BotIntent.find(...).sort(...), message.toLowerCase(), the matching loop
\* and setTimeout; toLowerCase is a method of strings only, on any other
\* value the call throws a TypeError that the handler's catch logs
SendIntents(h) ==
    /\ UNCHANGED <<svc, otp>>
    /\ h.kind = "send" /\ h.pc = "intents"
    /\ IF h.isString
       THEN LET m == MatchIntent(intents, FindActiveIntents(intents), h.text)
            IN /\ inflight' = (inflight \ {h}) \cup
                     {[h EXCEPT !.kind = "bot", !.pc = "timer", !.matched = m,
                                !.reply = IF m = None THEN Fallback
                                          ELSE intents[m].response,
                                !.seen = intents]}
               /\ last' = Step("send_intents", h.conn, h.op, NoArg, <<>>)
       ELSE /\ inflight' = inflight \ {h}
            /\ last' = Step("send_error", h.conn, h.op, NoArg, <<>>)
    /\ UNCHANGED <<sessions, messages, intents, cache, rooms, connected,
                   nOps, nSess, nMsg, now>>

\* io.to(socket.id).emit('message', botMsg)
BotEmit(t) ==
    <<Emit("message", ToRoom(t.conn, rooms, connected), [sender |-> "bot", op |-> t.op])>>

\* what the timer callback closes over: the message, the session id and the
\* intents as they were read
BotArg(t) == [NoArg EXCEPT !.text = t.text, !.sessionId = t.doc.id, !.seen = t.seen]

\* mutant: the callback goes on without saving the bot message
BotSave_Unsaved(t) ==
    /\ UNCHANGED <<svc, otp>>
    /\ t.kind = "bot" /\ t.pc = "timer"
    /\ IF t.matched = None
       THEN /\ inflight' = inflight \ {t}
            /\ last' = Step("bot_save", t.conn, t.op, BotArg(t), BotEmit(t))
       ELSE /\ inflight' = (inflight \ {t}) \cup {[t EXCEPT !.pc = "inc"]}
            /\ last' = Step("bot_save", t.conn, t.op, BotArg(t), <<>>)
    /\ UNCHANGED <<sessions, messages, nMsg, intents, cache, rooms, connected, nOps,
                   nSess, now>>

\* the setTimeout callback up to botMsg.save() / fallbackMsg.save()
BotSave(t) ==
    /\ UNCHANGED <<svc, otp>>
    /\ t.kind = "bot" /\ t.pc = "timer"
    /\ messages' = messages \cup
          {NewMessage(nMsg + 1, t.doc.id, "bot", t.reply, TRUE, now, t.op)}
    /\ nMsg' = nMsg + 1
    /\ IF t.matched = None
       THEN /\ inflight' = inflight \ {t}
            /\ last' = Step("bot_save", t.conn, t.op, BotArg(t), BotEmit(t))
       ELSE /\ inflight' = (inflight \ {t}) \cup {[t EXCEPT !.pc = "inc"]}
            /\ last' = Step("bot_save", t.conn, t.op, BotArg(t), <<>>)
    /\ UNCHANGED <<sessions, intents, cache, rooms, connected, nOps, nSess, now>>

\* mutant: the count read with the intents is written back plus one
BotInc_WriteBack(t) ==
    /\ UNCHANGED <<svc, otp>>
    /\ t.kind = "bot" /\ t.pc = "inc"
    /\ intents' = IF t.matched \in DOMAIN intents
                  THEN [intents EXCEPT ![t.matched].matchCount =
                                          t.seen[t.matched].matchCount + 1]
                  ELSE intents
    /\ inflight' = inflight \ {t}
    /\ last' = Step("bot_inc", t.conn, t.op, BotArg(t), BotEmit(t))
    /\ UNCHANGED <<sessions, messages, cache, rooms, connected, nOps, nSess, nMsg, now>>

\* BotIntent.findByIdAndUpdate(..., { $inc: { matchCount: 1 } }), then the emit
BotInc(t) ==
    /\ UNCHANGED <<svc, otp>>
    /\ t.kind = "bot" /\ t.pc = "inc"
    /\ intents' = IF t.matched \in DOMAIN intents
                  THEN [intents EXCEPT ![t.matched].matchCount = @ + 1]
                  ELSE intents
    /\ inflight' = inflight \ {t}
    /\ last' = Step("bot_inc", t.conn, t.op, BotArg(t), BotEmit(t))
    /\ UNCHANGED <<sessions, messages, cache, rooms, connected, nOps, nSess, nMsg, now>>

-----------------------------------------------------------------------------
(* end_chat, admin_join_session, admin_reply, delete_message, delete_session,
   disconnect *)

\* an update document applied under the schema's strict mode: the paths
\* the schema declares are written, the others are dropped
StrictUpdate(s, update) ==
    [f \in DOMAIN s |-> IF f \in DOMAIN update THEN update[f] ELSE s[f]]

\* { isActive: false, endedAt: new Date(), endedByUser: true }
EndChatFields(t) == [isActive |-> FALSE, endedAt |-> t, endedByUser |-> TRUE]

\* ChatSession.findOneAndUpdate({ guestId }, { isActive: false, ... }): the
\* schema has no endedAt or endedByUser path, so isActive is what is written
EndChatUpdate(s) == StrictUpdate(s, EndChatFields(now))

\* mutant: the update runs without the if (guestId) guard
EndChat_NoGuard(c, guestId) ==
    /\ UNCHANGED <<svc, otp>>
    /\ connected[c]
    /\ nOps' = nOps + 1
    /\ LET found == FindSessions(sessions, [field |-> "guestId", value |-> guestId])
           arg == [NoArg EXCEPT !.guestId = guestId]
       IN IF found = {}
          THEN /\ last' = Step("end_chat", c, nOps + 1, arg, <<>>)
               /\ UNCHANGED sessions
          ELSE \E id \in found :
               /\ sessions' = [sessions EXCEPT ![id] = EndChatUpdate(@)]
               /\ last' = Step("end_chat", c, nOps + 1, arg,
                               <<Emit("chat_ended", ToSocket(c, connected), [success |-> TRUE])>>)
    /\ UNCHANGED <<messages, intents, cache, rooms, connected, inflight, nSess, nMsg, now>>

\* socket.on('end_chat'): one findOneAndUpdate, then the two emits
EndChat(c, guestId) ==
    /\ UNCHANGED <<svc, otp>>
    /\ connected[c]
    /\ nOps' = nOps + 1
    /\ LET found == IF Truthy(guestId)
                    THEN FindSessions(sessions, [field |-> "guestId", value |-> guestId])
                    ELSE {}
           arg == [NoArg EXCEPT !.guestId = guestId]
       IN IF found = {}
          THEN /\ last' = Step("end_chat", c, nOps + 1, arg, <<>>)
               /\ UNCHANGED sessions
          ELSE \E id \in found :
               /\ sessions' = [sessions EXCEPT ![id] = EndChatUpdate(@)]
               /\ last' = Step("end_chat", c, nOps + 1, arg,
                               <<Emit("chat_ended", ToSocket(c, connected), [success |-> TRUE]),
                                 Emit("user_ended_chat", ToAll(connected),
                                      [sessionId |-> id,
                                       guestDetails |-> sessions[id].guestDetails])>>)
    /\ UNCHANGED <<messages, intents, cache, rooms, connected, inflight, nSess, nMsg, now>>

\* socket.join(sessionId) with whatever string the client sent
AdminJoinSession(c, room) ==
    /\ UNCHANGED <<svc, otp>>
    /\ connected[c]
    /\ room \notin rooms[c]
    /\ rooms' = [rooms EXCEPT ![c] = @ \cup {room}]
    /\ nOps' = nOps + 1
    /\ last' = Step("admin_join_session", c, nOps + 1, [NoArg EXCEPT !.sessionId = room], <<>>)
    /\ UNCHANGED <<sessions, messages, intents, cache, connected, inflight,
                   nSess, nMsg, now>>

\* adminMsg.save()
AdminReply(c, sid, text) ==
    /\ UNCHANGED <<svc, otp>>
    /\ connected[c]
    /\ nOps' = nOps + 1
    /\ messages' = messages \cup {NewMessage(nMsg + 1, sid, "admin", text, FALSE, now, nOps + 1)}
    /\ nMsg' = nMsg + 1
    /\ inflight' = inflight \cup
          {Invocation(nOps + 1, "reply", c, "update", None, None, text, NoSess,
                      [NoSess EXCEPT !.id = sid])}
    /\ last' = Step("admin_reply", c, nOps + 1,
                    [NoArg EXCEPT !.sessionId = sid, !.text = text], <<>>)
    /\ UNCHANGED <<sessions, intents, cache, rooms, connected, nSess, now>>

\* mutant: the session is not touched
AdminReplyUpdate_NoTouch(h) ==
    /\ UNCHANGED <<svc, otp>>
    /\ h.kind = "reply" /\ h.pc = "update"
    /\ inflight' = inflight \ {h}
    /\ last' = Step("admin_reply_update", h.conn, h.op, NoArg,
                    <<Emit("message", ToRoom(h.doc.id, rooms, connected),
                           [sender |-> "admin", op |-> h.op]),
                      Emit("admin_message_sent", ToSocket(h.conn, connected),
                           [sender |-> "admin", op |-> h.op])>>)
    /\ UNCHANGED <<sessions, messages, intents, cache, rooms, connected, nOps, nSess,
                   nMsg, now>>

\* ChatSession.findByIdAndUpdate(sessionId, { lastActivity }), then the emits
AdminReplyUpdate(h) ==
    /\ UNCHANGED <<svc, otp>>
    /\ h.kind = "reply" /\ h.pc = "update"
    /\ inflight' = inflight \ {h}
    /\ IF IsObjectId(h.doc.id)
       THEN /\ sessions' = IF h.doc.id \in DOMAIN sessions
                           THEN [sessions EXCEPT ![h.doc.id].lastActivity = now]
                           ELSE sessions
            /\ last' = Step("admin_reply_update", h.conn, h.op, NoArg,
                            <<Emit("message", ToRoom(h.doc.id, rooms, connected),
                                   [sender |-> "admin", op |-> h.op]),
                              Emit("admin_message_sent", ToSocket(h.conn, connected),
                                   [sender |-> "admin", op |-> h.op])>>)
       ELSE \* CastError, caught by the handler
            /\ last' = Step("admin_reply_error", h.conn, h.op, NoArg, <<>>)
            /\ UNCHANGED sessions
    /\ UNCHANGED <<messages, intents, cache, rooms, connected, nOps, nSess, nMsg, now>>

\* mutant: the message is removed from the collection
DeleteMessage_Remove(c, mid, sid) ==
    /\ UNCHANGED <<svc, otp>>
    /\ connected[c]
    /\ nOps' = nOps + 1
    /\ messages' = {m \in messages : m.id # mid}
    /\ last' = Step("delete_message", c, nOps + 1,
                    [NoArg EXCEPT !.sessionId = sid, !.messageId = mid], <<>>)
    /\ UNCHANGED <<sessions, intents, cache, rooms, connected, inflight, nSess, nMsg, now>>

\* ChatMessage.findByIdAndUpdate(messageId, { isDeleted: true }); message ids
\* are 1, 2, ... and 0 is a well-formed id that names no message
DeleteMessage(c, mid, sid) ==
    /\ UNCHANGED <<svc, otp>>
    /\ connected[c]
    /\ nOps' = nOps + 1
    /\ messages' = {IF m.id = mid THEN [m EXCEPT !.isDeleted = TRUE] ELSE m : m \in messages}
    /\ last' = Step("delete_message", c, nOps + 1,
                    [NoArg EXCEPT !.sessionId = sid, !.messageId = mid],
                    IF \E m \in messages : m.id = mid
                    THEN <<Emit("message_deleted", ToRoom(sid, rooms, connected),
                                [messageId |-> mid, sessionId |-> sid])>>
                    ELSE <<>>)
    /\ UNCHANGED <<sessions, intents, cache, rooms, connected, inflight, nSess, nMsg, now>>

DeleteSessionUpdate(s) == [s EXCEPT !.isDeleted = TRUE, !.isActive = FALSE]

DeleteSessionEmit(sid) ==
    <<Emit("session_deleted", ToAll(connected), [sessionId |-> sid])>>

\* ChatSession.findByIdAndUpdate(sessionId, { isDeleted: true, isActive: false })
DeleteSession(c, sid) ==
    /\ UNCHANGED <<svc, otp>>
    /\ connected[c]
    /\ nOps' = nOps + 1
    /\ LET arg == [NoArg EXCEPT !.sessionId = sid]
       IN IF ~IsObjectId(sid)
          THEN \* CastError, caught by the handler
               /\ last' = Step("delete_session_error", c, nOps + 1, arg, <<>>)
               /\ UNCHANGED <<sessions, inflight>>
          ELSE IF sid \in DOMAIN sessions
          THEN /\ sessions' = [sessions EXCEPT ![sid] = DeleteSessionUpdate(@)]
               /\ last' = Step("delete_session", c, nOps + 1, arg, DeleteSessionEmit(sid))
               /\ UNCHANGED inflight
          ELSE /\ inflight' = inflight \cup
                     {Invocation(nOps + 1, "delsess", c, "fallback", None, None, <<>>,
                                 NoSess, [NoSess EXCEPT !.id = sid])}
               /\ last' = Step("delete_session", c, nOps + 1, arg, <<>>)
               /\ UNCHANGED sessions
    /\ UNCHANGED <<messages, intents, cache, rooms, connected, nSess, nMsg, now>>

\* ChatSession.findOneAndUpdate({ socketId: sessionId }, ...)
DeleteSessionFallback(h) ==
    /\ UNCHANGED <<svc, otp>>
    /\ h.kind = "delsess" /\ h.pc = "fallback"
    /\ inflight' = inflight \ {h}
    /\ LET found == FindSessions(sessions, [field |-> "socketId", value |-> h.doc.id])
       IN IF found = {}
          THEN /\ last' = Step("delete_session_fallback", h.conn, h.op, NoArg, <<>>)
               /\ UNCHANGED sessions
          ELSE \E id \in found :
               /\ sessions' = [sessions EXCEPT ![id] = DeleteSessionUpdate(@)]
               /\ last' = Step("delete_session_fallback", h.conn, h.op, NoArg,
                               DeleteSessionEmit(h.doc.id))
    /\ UNCHANGED <<messages, intents, cache, rooms, connected, nOps, nSess, nMsg, now>>

\* mutant: the pending bot replies of the socket are cancelled
Disconnect_ClearsTimers(c) ==
    /\ UNCHANGED <<svc, otp>>
    /\ connected[c]
    /\ connected' = [connected EXCEPT ![c] = FALSE]
    /\ rooms' = [rooms EXCEPT ![c] = {}]
    /\ inflight' = {h \in inflight : ~(h.conn = c /\ h.pc = "timer")}
    /\ nOps' = nOps + 1
    /\ last' = Step("disconnect", c, nOps + 1, NoArg, <<>>)
    /\ UNCHANGED <<sessions, messages, intents, cache, nSess, nMsg, now>>

\* the socket leaves its rooms; nothing is persisted
Disconnect(c) ==
    /\ UNCHANGED <<svc, otp>>
    /\ connected[c]
    /\ connected' = [connected EXCEPT ![c] = FALSE]
    /\ rooms' = [rooms EXCEPT ![c] = {}]
    /\ nOps' = nOps + 1
    /\ last' = Step("disconnect", c, nOps + 1, NoArg, <<>>)
    /\ UNCHANGED <<sessions, messages, intents, cache, inflight, nSess, nMsg, now>>

-----------------------------------------------------------------------------
(* Environment: the clock and the admin's intent CRUD *)

\* Date.now() is the wall clock: it may stand still, advance or be set back
Tick(t) ==
    /\ UNCHANGED <<svc, otp>>
    /\ t # now
    /\ now' = t
    /\ nOps' = nOps + 1
    /\ last' = Step("tick", None, nOps + 1, NoArg, <<>>)
    /\ UNCHANGED <<sessions, messages, intents, cache, rooms, connected, inflight,
                   nSess, nMsg>>

\* PUT /intents/:id with { isActive }
UpdateIntent(i, active) ==
    /\ UNCHANGED <<svc, otp>>
    /\ i \in DOMAIN intents
    /\ intents[i].isActive # active
    /\ intents' = [intents EXCEPT ![i].isActive = active]
    /\ nOps' = nOps + 1
    /\ last' = Step("update_intent", None, nOps + 1, NoArg, <<>>)
    /\ UNCHANGED <<sessions, messages, cache, rooms, connected, inflight,
                   nSess, nMsg, now>>

-----------------------------------------------------------------------------
(* The intent recognition service and the intents CRUD routes *)

\* message strings handed to recognizeIntent
RecTexts == {<<>>, <<" ">>, T_c, T_Ab, <<"B", " ", "a">>}

\* req.body.keywords of PUT /intents/:id
KeywordEdits == {{<<"a">>, <<"x">>, <<"y">>, <<"z">>}, {<<"a">>, <<"x">>},
                 {<<"A", "b", "s">>}}

\* !message || message.trim().length === 0
Blank(message) == \A n \in 1..Len(message) : message[n] = " "

RECURSIVE Split(_, _, _)
\* WordTokenizer.tokenize: the maximal runs of word characters, in order
Split(s, cur, n) ==
    IF n > Len(s) THEN (IF cur = <<>> THEN <<>> ELSE <<cur>>)
    ELSE IF s[n] = " "
         THEN (IF cur = <<>> THEN <<>> ELSE <<cur>>) \o Split(s, <<>>, n + 1)
         ELSE Split(s, Append(cur, s[n]), n + 1)

\* PorterStemmer.stem on the model's words: a token of fewer than three
\* characters is returned as it is, a final "s" that follows another
\* letter than "s" is dropped (step 1a)
Stem(token) ==
    IF Len(token) >= 3 /\ token[Len(token)] = "s" /\ token[Len(token) - 1] # "s"
    THEN SubSeq(token, 1, Len(token) - 1)
    ELSE token

\* processMessage: tokenize the lower-cased message and stem each token
ProcessMessage(message) ==
    LET tokens == Split(ToLowerCase(message), <<>>, 1)
    IN [n \in 1..Len(tokens) |-> Stem(tokens[n])]

\* calculateSimilarity: matchCount / stemmedKeywords.length, kept as the
\* pair <<matchCount, length>>
CalculateSimilarity(messageTokens, keywords) ==
    LET stemmedKeywords == {Stem(ToLowerCase(kw)) : kw \in keywords}
    IN <<Cardinality({n \in 1..Len(messageTokens) :
                         messageTokens[n] \in stemmedKeywords}),
         Cardinality(keywords)>>

\* mutant: score >= highestScore
Exceeds_OrEqual(score, highestScore) ==
    score[2] > 0 /\ score[1] * highestScore[2] >= highestScore[1] * score[2]

\* score > highestScore (0 / 0 is NaN, which exceeds nothing)
Exceeds(score, highestScore) ==
    score[2] > 0 /\ score[1] * highestScore[2] > highestScore[1] * score[2]

\* score >= 0.3
AtLeastThreshold(score) == score[2] > 0 /\ 10 * score[1] >= 3 * score[2]

RECURSIVE Scan(_, _, _, _, _)
\* for (const intent of this.intents) { ... if (score > highestScore &&
\* score >= 0.3) { highestScore = score; bestMatch = intent; } }
Scan(loaded, messageTokens, n, bestMatch, highestScore) ==
    IF n > Len(loaded) THEN bestMatch
    ELSE LET score == CalculateSimilarity(messageTokens, loaded[n].keywords)
         IN IF Exceeds(score, highestScore) /\ AtLeastThreshold(score)
            THEN Scan(loaded, messageTokens, n + 1, {loaded[n]}, score)
            ELSE Scan(loaded, messageTokens, n + 1, bestMatch, highestScore)

\* bestMatch of recognizeIntent: no intent, or one
BestMatch(loaded, message) == Scan(loaded, ProcessMessage(message), 1, {}, <<0, 1>>)

\* a loaded intent document: the fields the service and its callers read
IntentDoc(store, i) ==
    [id |-> i, intent |-> store[i].intent, keywords |-> store[i].keywords,
     response |-> store[i].response, priority |-> store[i].priority,
     isActive |-> store[i].isActive]

\* BotIntent.find({ isActive: true }).sort({ priority: -1 }) of loadIntents
LoadIntents(store) ==
    LET found == FindActiveIntents(store)
    IN [n \in 1..Len(found) |-> IntentDoc(store, found[n])]

\* what a call of recognizeIntent works on: the message and this.intents
RecArg(message, loaded) == [NoArg EXCEPT !.text = message, !.loaded = loaded]

\* the loadIntents() that the constructor starts completes
ServiceLoad ==
    /\ UNCHANGED otp
    /\ ~svc.booted
    /\ svc' = [svc EXCEPT !.loaded = LoadIntents(intents), !.booted = TRUE]
    /\ nOps' = nOps + 1
    /\ last' = Step("load_intents", None, nOps + 1, NoArg, <<>>)
    /\ UNCHANGED <<sessions, messages, intents, cache, rooms, connected, inflight,
                   nSess, nMsg, now>>

\* recognizeIntent from the scoring loop to its return or to the $inc
RecognizeScore(op, message, loaded, rest) ==
    LET bestMatch == BestMatch(loaded, message)
    IN IF bestMatch = {}
       THEN /\ inflight' = rest
            /\ svc' = [svc EXCEPT !.loaded = loaded, !.result = {}]
            /\ last' = Step("recognize_none", None, op, RecArg(message, loaded), <<>>)
       ELSE LET d == CHOOSE x \in bestMatch : TRUE
            IN /\ inflight' = rest \cup
                     {[Invocation(op, "recognize", None, "inc", None, None,
                                  message, NoSess, d)
                       EXCEPT !.matched = d.id, !.loaded = loaded]}
               /\ svc' = [svc EXCEPT !.loaded = loaded]
               /\ last' = Step("recognize_scored", None, op,
                               RecArg(message, loaded), <<>>)

\* recognizeIntent(message) up to its first await
RecognizeIntent(message) ==
    /\ UNCHANGED otp
    /\ nOps' = nOps + 1
    /\ IF Blank(message)
       THEN /\ svc' = [svc EXCEPT !.result = {}]
            /\ last' = Step("recognize_blank", None, nOps + 1,
                            RecArg(message, svc.loaded), <<>>)
            /\ UNCHANGED inflight
       ELSE IF Len(svc.loaded) = 0
       THEN /\ inflight' = inflight \cup
                  {Invocation(nOps + 1, "recognize", None, "load", None, None,
                              message, NoSess, NoSess)}
            /\ last' = Step("recognize_load", None, nOps + 1,
                            RecArg(message, svc.loaded), <<>>)
            /\ UNCHANGED <<svc, otp>>
       ELSE RecognizeScore(nOps + 1, message, svc.loaded, inflight)
    /\ UNCHANGED <<sessions, messages, intents, cache, rooms, connected,
                   nSess, nMsg, now>>

\* if (this.intents.length === 0) await this.loadIntents(), then the loop
RecognizeLoad(h) ==
    /\ UNCHANGED otp
    /\ h.kind = "recognize" /\ h.pc = "load"
    /\ RecognizeScore(h.op, h.text, LoadIntents(intents), inflight \ {h})
    /\ UNCHANGED <<sessions, messages, intents, cache, rooms, connected, nOps,
                   nSess, nMsg, now>>

\* BotIntent.findByIdAndUpdate(bestMatch._id, { $inc: { matchCount: 1 } }),
\* then return bestMatch
RecognizeInc(h) ==
    /\ UNCHANGED otp
    /\ h.kind = "recognize" /\ h.pc = "inc"
    /\ intents' = IF h.matched \in DOMAIN intents
                  THEN [intents EXCEPT ![h.matched].matchCount = @ + 1]
                  ELSE intents
    /\ svc' = [svc EXCEPT !.result = {h.doc}]
    /\ inflight' = inflight \ {h}
    /\ last' = Step("recognize_return", None, h.op, RecArg(h.text, h.loaded), <<>>)
    /\ UNCHANGED <<sessions, messages, cache, rooms, connected, nOps, nSess,
                   nMsg, now>>

\* PUT /intents/:id with { keywords }
EditIntent(i, keywords) ==
    /\ i \in DOMAIN intents
    /\ intents[i].keywords # keywords
    /\ intents' = [intents EXCEPT ![i].keywords = keywords]
    /\ nOps' = nOps + 1
    /\ last' = Step("edit_intent", None, nOps + 1, NoArg, <<>>)
    /\ UNCHANGED <<sessions, messages, cache, rooms, connected, inflight,
                   nSess, nMsg, now, svc, otp>>

\* DELETE /intents/:id
DeleteIntent(i) ==
    /\ i \in DOMAIN intents
    /\ intents' = [j \in DOMAIN intents \ {i} |-> intents[j]]
    /\ nOps' = nOps + 1
    /\ last' = Step("delete_intent", None, nOps + 1, NoArg, <<>>)
    /\ UNCHANGED <<sessions, messages, cache, rooms, connected, inflight,
                   nSess, nMsg, now, svc, otp>>

-----------------------------------------------------------------------------
(* Hard deletion of sessions: the REST route and the inactivity expiry *)

\* the lastActivity index expires a session expireAfterSeconds after its
\* last activity: 86400 seconds, scaled to one instant of the model's clock
ExpireAfter == 1

\* the store without the document id
Remove(store, id) == [j \in DOMAIN store \ {id} |-> store[j]]

\* DELETE /sessions/:id up to ChatSession.findByIdAndDelete(id)
RestDeleteSession(id) ==
    /\ IsObjectId(id)
    /\ nOps' = nOps + 1
    /\ IF id \in DOMAIN sessions
       THEN /\ sessions' = Remove(sessions, id)
            /\ inflight' = inflight \cup
                  {Invocation(nOps + 1, "rest_delete", None, "messages", None, None,
                              <<>>, NoSess, [NoSess EXCEPT !.id = id])}
            /\ last' = Step("rest_delete", None, nOps + 1,
                            [NoArg EXCEPT !.sessionId = id], <<>>)
       ELSE \* AppError('Session not found', 404)
            /\ last' = Step("rest_delete_404", None, nOps + 1,
                            [NoArg EXCEPT !.sessionId = id], <<>>)
            /\ UNCHANGED <<sessions, inflight>>
    /\ UNCHANGED <<messages, intents, cache, rooms, connected, nSess, nMsg, now, svc, otp>>

\* ChatMessage.deleteMany({ sessionId: id }), then the response
RestDeleteMessages(h) ==
    /\ h.kind = "rest_delete" /\ h.pc = "messages"
    /\ messages' = {m \in messages : m.sessionId # h.doc.id}
    /\ inflight' = inflight \ {h}
    /\ last' = Step("rest_delete_messages", None, h.op,
                    [NoArg EXCEPT !.sessionId = h.doc.id], <<>>)
    /\ UNCHANGED <<sessions, intents, cache, rooms, connected, nOps, nSess, nMsg,
                   now, svc, otp>>

\* the database removes a session whose lastActivity is expireAfterSeconds old
ExpireSession(id) ==
    /\ id \in DOMAIN sessions
    /\ sessions[id].lastActivity + ExpireAfter <= now
    /\ sessions' = Remove(sessions, id)
    /\ nOps' = nOps + 1
    /\ last' = Step("expire", None, nOps + 1, [NoArg EXCEPT !.sessionId = id], <<>>)
    /\ UNCHANGED <<messages, intents, cache, rooms, connected, inflight, nSess, nMsg,
                   now, svc, otp>>

-----------------------------------------------------------------------------
(* One-time passwords: sendOtp, verifyOtp and the expiry of the Otp collection *)

\* 5 * 60 * 1000 milliseconds and the index's expires: 300 seconds, each
\* scaled to two instants of the model's clock
OtpLifetime == 2
OtpIndexExpires == 2

\* req.body.mobile and req.body.otp
MobileVals == {None, "p1"}
OtpCodes == {<<"1">>, <<"2">>}
OtpTimes == 0..MaxTimeOtp

NoOtp == [id |-> 0, phone |-> None, otp |-> <<>>, expiresAt |-> 0, issue |-> 0]

\* Otp.findOne({ phone: mobile })
FindOtps(store, mobile) == {d \in store : d.phone = mobile}

\* sendOtp of a registered user's login up to FrontendUser.findOne
SendOtp(mobile) ==
    /\ nOps' = nOps + 1
    /\ IF ~Truthy(mobile)
       THEN /\ last' = Step("send_otp_400", None, nOps + 1, NoArg, <<>>)
            /\ UNCHANGED inflight
       ELSE /\ inflight' = inflight \cup
                  {Invocation(nOps + 1, "send_otp", None, "store", None, mobile,
                              <<>>, NoSess, NoOtp)}
            /\ last' = Step("send_otp", None, nOps + 1, NoArg, <<>>)
    /\ UNCHANGED <<sessions, messages, intents, cache, rooms, connected, nSess, nMsg,
                   now, svc, otp>>

\* Otp.findOneAndUpdate({ phone }, { phone, otp, expiresAt }, { upsert: true }),
\* then the SMS and the response; otp is the code that Math.random gave
SendOtpStore(h, code) ==
    /\ h.kind = "send_otp" /\ h.pc = "store"
    /\ LET old == FindOtps(otp.store, h.guestId)
       IN IF old = {}
          THEN otp' = [otp EXCEPT !.store = @ \cup
                          {[id |-> h.op, phone |-> h.guestId, otp |-> code,
                            expiresAt |-> now + OtpLifetime, issue |-> h.op]}]
          ELSE \E d \in old :
                  otp' = [otp EXCEPT !.store = (@ \ {d}) \cup
                             {[d EXCEPT !.otp = code, !.expiresAt = now + OtpLifetime,
                                        !.issue = h.op]}]
    /\ inflight' = inflight \ {h}
    /\ last' = Step("send_otp_store", None, h.op, NoArg, <<>>)
    /\ UNCHANGED <<sessions, messages, intents, cache, rooms, connected, nOps, nSess,
                   nMsg, now, svc>>

\* storedOtp.otp !== otp fails
OtpMatches(d, code) == d.otp = code

\* verifyOtp up to Otp.findOne and the comparison
VerifyOtp(mobile, code) ==
    /\ nOps' = nOps + 1
    /\ IF ~Truthy(mobile) \/ code = <<>>
       THEN /\ last' = Step("verify_otp_400", None, nOps + 1, NoArg, <<>>)
            /\ UNCHANGED <<inflight, otp>>
       ELSE LET found == FindOtps(otp.store, mobile)
            IN IF found = {}
               THEN /\ last' = Step("verify_otp_not_found", None, nOps + 1, NoArg, <<>>)
                    /\ UNCHANGED <<inflight, otp>>
               ELSE \E d \in found :
                    IF ~OtpMatches(d, code)
                    THEN /\ last' = Step("verify_otp_invalid", None, nOps + 1, NoArg, <<>>)
                         /\ UNCHANGED <<inflight, otp>>
                    ELSE /\ inflight' = inflight \cup
                               {Invocation(nOps + 1, "verify_otp", None, "delete", None,
                                           mobile, code, NoSess, d)}
                         /\ otp' = [otp EXCEPT !.passed = @ \cup
                                        {[op |-> nOps + 1, phone |-> mobile, otp |-> code,
                                          issue |-> d.issue, at |-> now,
                                          expiresAt |-> d.expiresAt]}]
                         /\ last' = Step("verify_otp_pass", None, nOps + 1, NoArg, <<>>)
    /\ UNCHANGED <<sessions, messages, intents, cache, rooms, connected, nSess, nMsg,
                   now, svc>>

\* Otp.deleteOne({ _id: storedOtp._id }), then the user lookup and the token
VerifyOtpDelete(h) ==
    /\ h.kind = "verify_otp" /\ h.pc = "delete"
    /\ otp' = [otp EXCEPT !.store = {d \in @ : d.id # h.doc.id}]
    /\ inflight' = inflight \ {h}
    /\ last' = Step("verify_otp_done", None, h.op, NoArg, <<>>)
    /\ UNCHANGED <<sessions, messages, intents, cache, rooms, connected, nOps, nSess,
                   nMsg, now, svc>>

\* the database removes an Otp document `expires` seconds after its expiresAt
OtpExpire(d) ==
    /\ d \in otp.store
    /\ d.expiresAt + OtpIndexExpires <= now
    /\ otp' = [otp EXCEPT !.store = @ \ {d}]
    /\ nOps' = nOps + 1
    /\ last' = Step("otp_expire", None, nOps + 1, NoArg, <<>>)
    /\ UNCHANGED <<sessions, messages, intents, cache, rooms, connected, inflight,
                   nSess, nMsg, now, svc>>

-----------------------------------------------------------------------------
(* Persistence calls that reject *)

\* the socket events whose handler awaits a persistence call
HandlerEvents == {"join_session", "send_message", "end_chat", "admin_reply",
                  "delete_message", "delete_session"}

\* the act recorded when a handler ends in its catch block
ErrorAct(kind) ==
    CASE kind = "join" -> "join_error"
      [] kind = "send" -> "send_error"
      [] kind = "reply" -> "admin_reply_error"
      [] kind = "delsess" -> "delete_session_error"
      [] OTHER -> "bot_error"

\* the first persistence call of a handler rejects: control goes to the
\* catch block, which logs the error
RejectedAtStart(c, ev) ==
    /\ UNCHANGED <<svc, otp>>
    /\ connected[c]
    /\ nOps' = nOps + 1
    /\ last' = Step(CASE ev = "join_session" -> "join_error"
                      [] ev = "send_message" -> "send_error"
                      [] ev = "end_chat" -> "end_chat_error"
                      [] ev = "admin_reply" -> "admin_reply_error"
                      [] ev = "delete_message" -> "delete_message_error"
                      [] OTHER -> "delete_session_error",
                    c, nOps + 1, NoArg, <<>>)
    /\ UNCHANGED <<sessions, messages, intents, cache, rooms, connected, inflight,
                   nSess, nMsg, now>>

\* the persistence call a suspended handler is waiting for rejects: control
\* goes to the catch block; what the handler did before stays done
PersistenceFails(h) ==
    /\ UNCHANGED <<svc, otp>>
    /\ h.kind \in {"join", "send", "reply", "delsess"}
    /\ inflight' = inflight \ {h}
    /\ last' = Step(ErrorAct(h.kind), h.conn, h.op, NoArg, <<>>)
    /\ UNCHANGED <<sessions, messages, intents, cache, rooms, connected,
                   nOps, nSess, nMsg, now>>

\* botMsg.save() or the matchCount update rejects inside the timer
\* callback, which has no catch: the callback ends before its emit
BotRejects(t) ==
    /\ UNCHANGED <<svc, otp>>
    /\ t.kind = "bot"
    /\ inflight' = inflight \ {t}
    /\ last' = Step("bot_error", t.conn, t.op, BotArg(t), <<>>)
    /\ UNCHANGED <<sessions, messages, intents, cache, rooms, connected,
                   nOps, nSess, nMsg, now>>

-----------------------------------------------------------------------------
(* Specifications *)

AllocatedIds == {SessionId(k) : k \in 1..nSess}
\* data.sessionId of admin_reply: a storage id in use, a well-formed id that
\* names no session, or a room name that is no storage id (a guest id)
ReplyIds == AllocatedIds \cup {StrayId, "g1"}
RoomVals == AllocatedIds \cup Conns

\* invocations that are running, as opposed to waiting for their timer
Running == {h \in inflight : h.pc # "timer"}

\* Handlers and timer callbacks interleave at every persistence call
Next ==
    \/ \E c \in Conns, u \in UserVals, g \in GuestVals, d \in DetailVals :
          nOps < MaxOps /\ JoinSession(c, u, g, d)
    \/ \E c \in Conns, u \in UserVals, g \in GuestVals, m \in Payloads :
          nOps < MaxOps /\ SendMessage(c, u, g, m)
    \/ \E c \in Conns, g \in GuestVals : nOps < MaxOps /\ EndChat(c, g)
    \/ \E c \in Conns, r \in RoomVals : nOps < MaxOps /\ AdminJoinSession(c, r)
    \/ \E c \in Conns, sid \in ReplyIds : nOps < MaxOps /\ AdminReply(c, sid, T_c)
    \/ \E c \in Conns, mid \in 0..nMsg, sid \in AllocatedIds :
          nOps < MaxOps /\ DeleteMessage(c, mid, sid)
    \/ \E c \in Conns, sid \in AllocatedIds \cup Conns \cup {StrayId} :
          nOps < MaxOps /\ DeleteSession(c, sid)
    \/ \E c \in Conns : nOps < MaxOps /\ Disconnect(c)
    \/ \E t \in Times : nOps < MaxOps /\ Tick(t)
    \/ \E i \in IntentIds, b \in BOOLEAN : nOps < MaxOps /\ UpdateIntent(i, b)
    \/ \E h \in inflight : JoinSave(h)
    \/ \E h \in inflight : JoinHistory(h)
    \/ \E h \in inflight : SendCreate(h)
    \/ \E h \in inflight : SendSaveMsg(h)
    \/ \E h \in inflight : SendSaveSession(h)
    \/ \E h \in inflight : SendIntents(h)
    \/ \E h \in inflight : BotSave(h)
    \/ \E h \in inflight : BotInc(h)
    \/ \E h \in inflight : AdminReplyUpdate(h)
    \/ \E h \in inflight : DeleteSessionFallback(h)

Spec == Init /\ [][Next]_vars

\* no handler or timer callback is in the middle of its run
Quiet == Running = {}

\* Handlers and timer callbacks run one at a time, each to its end (the
\* clock goes on while they run)
NextSeq ==
    \/ \E c \in Conns, u \in UserVals, g \in GuestVals, d \in DetailVals :
          Quiet /\ nOps < MaxOpsSeq /\ JoinSession(c, u, g, d)
    \/ \E c \in Conns, u \in UserVals, g \in GuestVals, m \in Payloads :
          Quiet /\ nOps < MaxOpsSeq /\ SendMessage(c, u, g, m)
    \/ \E c \in Conns, g \in GuestVals : Quiet /\ nOps < MaxOpsSeq /\ EndChat(c, g)
    \/ \E c \in Conns, r \in RoomVals : Quiet /\ nOps < MaxOpsSeq /\ AdminJoinSession(c, r)
    \/ \E c \in Conns, sid \in ReplyIds :
          Quiet /\ nOps < MaxOpsSeq /\ AdminReply(c, sid, T_c)
    \/ \E c \in Conns, mid \in 0..nMsg, sid \in AllocatedIds :
          Quiet /\ nOps < MaxOpsSeq /\ DeleteMessage(c, mid, sid)
    \/ \E c \in Conns, sid \in AllocatedIds \cup Conns \cup {StrayId} :
          Quiet /\ nOps < MaxOpsSeq /\ DeleteSession(c, sid)
    \/ \E c \in Conns : Quiet /\ nOps < MaxOpsSeq /\ Disconnect(c)
    \/ \E t \in Times : nOps < MaxOpsSeq /\ Tick(t)
    \/ \E i \in IntentIds, b \in BOOLEAN : Quiet /\ nOps < MaxOpsSeq /\ UpdateIntent(i, b)
    \/ \E h \in inflight : Quiet /\ BotSave(h)
    \/ \E h \in inflight : JoinSave(h)
    \/ \E h \in inflight : JoinHistory(h)
    \/ \E h \in inflight : SendCreate(h)
    \/ \E h \in inflight : SendSaveMsg(h)
    \/ \E h \in inflight : SendSaveSession(h)
    \/ \E h \in inflight : SendIntents(h)
    \/ \E h \in inflight : BotInc(h)
    \/ \E h \in inflight : AdminReplyUpdate(h)
    \/ \E h \in inflight : DeleteSessionFallback(h)

SpecSeq == Init /\ [][NextSeq]_vars

\* Connections that all carry the guest id "g1": join_session and
\* send_message only, interleaved at every persistence call
NextGuest ==
    \/ \E c \in Conns : nOps < MaxOpsGuest /\ JoinSession(c, None, "g1", EmptyDetails)
    \/ \E c \in Conns, m \in Payloads :
          nOps < MaxOpsGuest /\ SendMessage(c, None, "g1", m)
    \/ \E h \in inflight : JoinSave(h)
    \/ \E h \in inflight : JoinHistory(h)
    \/ \E h \in inflight : SendCreate(h)
    \/ \E h \in inflight : SendSaveMsg(h)
    \/ \E h \in inflight : SendSaveSession(h)
    \/ \E h \in inflight : SendIntents(h)
    \/ \E h \in inflight : BotSave(h)
    \/ \E h \in inflight : BotInc(h)

SpecGuest == Init /\ [][NextGuest]_vars

\* send_message from connections that may disconnect while the admin edits
\* the intents; every handler and every timer goes on until it ends
NextLive ==
    \/ \E c \in Conns, g \in GuestVals, m \in Payloads :
          nOps < MaxOpsLive /\ SendMessage(c, None, g, m)
    \/ \E c \in Conns : nOps < MaxOpsLive /\ Disconnect(c)
    \/ \E i \in IntentIds, b \in BOOLEAN : nOps < MaxOpsLive /\ UpdateIntent(i, b)
    \/ \E h \in inflight : SendCreate(h)
    \/ \E h \in inflight : SendSaveMsg(h)
    \/ \E h \in inflight : SendSaveSession(h)
    \/ \E h \in inflight : SendIntents(h)
    \/ \E h \in inflight : BotSave(h)
    \/ \E h \in inflight : BotInc(h)

\* the next step of the invocation started by event k
Progress(k) ==
    \E h \in inflight :
        /\ h.op = k
        /\ \/ SendCreate(h) \/ SendSaveMsg(h) \/ SendSaveSession(h)
           \/ SendIntents(h) \/ BotSave(h) \/ BotInc(h)

\* the event loop resumes every handler whose persistence call has returned
\* and runs every timer callback that is due
SpecLive ==
    Init /\ [][NextLive]_vars /\ \A k \in 1..MaxOpsLive : WF_vars(Progress(k))

\* Handlers run one at a time on string messages, and any persistence call
\* may reject
NextFail ==
    \/ \E c \in Conns, g \in GuestVals, d \in DetailVals :
          Quiet /\ nOps < MaxOpsFail /\ JoinSession(c, None, g, d)
    \/ \E c \in Conns, g \in GuestVals, t \in Texts :
          Quiet /\ nOps < MaxOpsFail
                /\ SendMessage(c, None, g, [isString |-> TRUE, text |-> t])
    \/ \E c \in Conns, g \in GuestVals : Quiet /\ nOps < MaxOpsFail /\ EndChat(c, g)
    \/ \E c \in Conns, sid \in ReplyIds :
          Quiet /\ nOps < MaxOpsFail /\ AdminReply(c, sid, T_c)
    \/ \E c \in Conns, mid \in 0..nMsg, sid \in AllocatedIds :
          Quiet /\ nOps < MaxOpsFail /\ DeleteMessage(c, mid, sid)
    \/ \E c \in Conns, sid \in AllocatedIds \cup Conns \cup {StrayId} :
          Quiet /\ nOps < MaxOpsFail /\ DeleteSession(c, sid)
    \/ \E c \in Conns, ev \in HandlerEvents :
          Quiet /\ nOps < MaxOpsFail /\ RejectedAtStart(c, ev)
    \/ \E h \in inflight : PersistenceFails(h)
    \/ \E h \in inflight : Quiet /\ BotRejects(h)
    \/ \E h \in inflight : Quiet /\ BotSave(h)
    \/ \E h \in inflight : JoinSave(h)
    \/ \E h \in inflight : JoinHistory(h)
    \/ \E h \in inflight : SendCreate(h)
    \/ \E h \in inflight : SendSaveMsg(h)
    \/ \E h \in inflight : SendSaveSession(h)
    \/ \E h \in inflight : SendIntents(h)
    \/ \E h \in inflight : BotInc(h)
    \/ \E h \in inflight : BotRejects(h) /\ h.pc = "inc"
    \/ \E h \in inflight : AdminReplyUpdate(h)
    \/ \E h \in inflight : DeleteSessionFallback(h)

SpecFail == Init /\ [][NextFail]_vars

\* The intent recognition service beside the admin's intent routes: calls
\* of recognizeIntent interleave with each other and with the routes
NextIntent ==
    \/ nOps < MaxOpsIntent /\ ServiceLoad
    \/ \E m \in RecTexts : nOps < MaxOpsIntent /\ RecognizeIntent(m)
    \/ \E h \in inflight : RecognizeLoad(h)
    \/ \E h \in inflight : RecognizeInc(h)
    \/ \E i \in IntentIds, b \in BOOLEAN : nOps < MaxOpsIntent /\ UpdateIntent(i, b)
    \/ \E i \in IntentIds, k \in KeywordEdits : nOps < MaxOpsIntent /\ EditIntent(i, k)
    \/ \E i \in IntentIds : nOps < MaxOpsIntent /\ DeleteIntent(i)

SpecIntent == Init /\ [][NextIntent]_vars

\* Messages handled concurrently by send_message and by the recognition
\* service, beside the admin's deletion of intents
NextCount ==
    \/ \E c \in Conns, g \in GuestVals, t \in Texts :
          nOps < MaxOpsCount /\ SendMessage(c, None, g, [isString |-> TRUE, text |-> t])
    \/ nOps < MaxOpsCount /\ ServiceLoad
    \/ \E m \in RecTexts : nOps < MaxOpsCount /\ RecognizeIntent(m)
    \/ \E i \in IntentIds : nOps < MaxOpsCount /\ DeleteIntent(i)
    \/ \E h \in inflight : RecognizeLoad(h)
    \/ \E h \in inflight : RecognizeInc(h)
    \/ \E h \in inflight : SendCreate(h)
    \/ \E h \in inflight : SendSaveMsg(h)
    \/ \E h \in inflight : SendSaveSession(h)
    \/ \E h \in inflight : SendIntents(h)
    \/ \E h \in inflight : BotSave(h)
    \/ \E h \in inflight : BotInc(h)

SpecCount == Init /\ [][NextCount]_vars

\* The chat handlers beside the hard deletion of sessions, by the REST route
\* and by the inactivity expiry; everything interleaves
NextHard ==
    \/ \E c \in Conns, t \in Texts :
          nOps < MaxOpsHard /\ SendMessage(c, None, "g1", [isString |-> TRUE, text |-> t])
    \/ \E sid \in ReplyIds : nOps < MaxOpsHard /\ AdminReply("c2", sid, T_c)
    \/ \E id \in AllocatedIds \cup {StrayId} : nOps < MaxOpsHard /\ RestDeleteSession(id)
    \/ \E id \in AllocatedIds : nOps < MaxOpsHard /\ ExpireSession(id)
    \/ \E t \in Times : nOps < MaxOpsHard /\ Tick(t)
    \/ \E h \in inflight : RestDeleteMessages(h)
    \/ \E h \in inflight : AdminReplyUpdate(h)
    \/ \E h \in inflight : SendCreate(h)
    \/ \E h \in inflight : SendSaveMsg(h)
    \/ \E h \in inflight : SendSaveSession(h)
    \/ \E h \in inflight : SendIntents(h)
    \/ \E h \in inflight : BotSave(h)
    \/ \E h \in inflight : BotInc(h)

SpecHard == Init /\ [][NextHard]_vars

\* One connection sends messages for one guest; the handler invocations and
\* their timers interleave at every persistence call
NextOrder ==
    \/ \E t \in Texts :
          nOps < MaxOpsOrder
              /\ SendMessage("c1", None, "g1", [isString |-> TRUE, text |-> t])
    \/ \E h \in inflight : SendCreate(h)
    \/ \E h \in inflight : SendSaveMsg(h)
    \/ \E h \in inflight : SendSaveSession(h)
    \/ \E h \in inflight : SendIntents(h)
    \/ \E h \in inflight : BotSave(h)
    \/ \E h \in inflight : BotInc(h)

SpecOrder == Init /\ [][NextOrder]_vars

\* Requests for and verifications of one-time passwords interleave while the
\* clock goes forward and the database expires Otp documents
NextOtp ==
    \/ \E m \in MobileVals : nOps < MaxOpsOtp /\ SendOtp(m)
    \/ \E m \in MobileVals, code \in OtpCodes \cup {<<>>} :
          nOps < MaxOpsOtp /\ VerifyOtp(m, code)
    \/ \E d \in otp.store : nOps < MaxOpsOtp /\ OtpExpire(d)
    \/ \E t \in OtpTimes : nOps < MaxOpsOtp /\ t > now /\ Tick(t)
    \/ \E h \in inflight, code \in OtpCodes : SendOtpStore(h, code)
    \/ \E h \in inflight : VerifyOtpDelete(h)

SpecOtp == Init /\ [][NextOtp]_vars






-----------------------------------------------------------------------------
(* Claims *)

SessionsOfGuest(g) == {id \in DOMAIN sessions : sessions[id].guestId = g}

\* a send_message handler has run to its end
SendCompleted ==
    \E m \in messages : m.sender = "user" /\ ~\E h \in Running : h.op = m.op

\* C1: under any interleaving of join_session and send_message handlers that
\* all carry the guest id g1, once a send_message has completed the session
\* store holds exactly one session with that guest id.
C1_OneSessionPerGuest ==
    SendCompleted => Cardinality(SessionsOfGuest("g1")) = 1

ActiveSessions == {id \in DOMAIN sessions : sessions[id].isActive}

\* C2: when handlers run one at a time, no two active sessions share a guest
\* id or a non-null user id.
C2_OneActiveSessionPerIdentity ==
    \A a, b \in ActiveSessions :
        a # b =>
            /\ ~(Truthy(sessions[a].guestId) /\ sessions[a].guestId = sessions[b].guestId)
            /\ ~(Truthy(sessions[a].userId) /\ sessions[a].userId = sessions[b].userId)

\* the invocations of join_session and send_message that hold a session
Resolved == {h \in inflight : h.kind \in {"join", "send"} /\ h.sess.id # None}

\* C3: join_session and send_message resolve the session by userId when one
\* is supplied, else by guestId when one is supplied, else by the connection
\* id; a request with both ids never gets a session that matches on guestId
\* only.
C3_ResolutionOrder ==
    \A h \in Resolved :
        /\ Truthy(h.userId) => h.sess.userId = h.userId
        /\ (~Truthy(h.userId) /\ Truthy(h.guestId)) => h.sess.guestId = h.guestId
        /\ (~Truthy(h.userId) /\ ~Truthy(h.guestId)) => h.sess.socketId = h.conn

\* a request with both ids got the user's session while another session
\* matches its guest id only
C3_Witness ==
    \E h \in Resolved :
        /\ Truthy(h.userId) /\ Truthy(h.guestId)
        /\ h.kind = "join"
        /\ \E id \in DOMAIN sessions :
              sessions[id].guestId = h.guestId /\ sessions[id].userId # h.userId

\* no stored session answers the identity (userId, guestId, connection)
NoSessionFor(userId, guestId, c) ==
    ~\E id \in DOMAIN sessions :
        \/ Truthy(userId) /\ sessions[id].userId = userId
        \/ ~Truthy(userId) /\ Truthy(guestId) /\ sessions[id].guestId = guestId
        \/ ~Truthy(userId) /\ ~Truthy(guestId) /\ sessions[id].socketId = c

\* C4: join_session never creates a session; when the identity resolves to
\* no session, both stores stay as they are, nothing is left to be written,
\* the connection is in the room of the supplied guest id, and session_joined
\* goes to the caller with sessionId null and no messages.
C4_JoinNotFoundFrame ==
    [][/\ last'.act \in {"join_session", "join_save", "join_history"}
            => DOMAIN sessions' = DOMAIN sessions /\ messages' = messages
       /\ (last'.act = "join_session"
             /\ NoSessionFor(last'.arg.userId, last'.arg.guestId, last'.conn))
            => /\ sessions' = sessions
               /\ inflight' = inflight
               /\ Truthy(last'.arg.guestId) => last'.arg.guestId \in rooms'[last'.conn]
               /\ last'.emits = <<[event |-> "session_joined", to |-> {last'.conn},
                                   data |-> [sessionId |-> None, messages |-> <<>>]]>>
      ]_vars

\* a join_session with a guest id found no session although sessions and
\* messages exist
C4_Witness ==
    /\ last.act = "join_session"
    /\ Truthy(last.arg.guestId)
    /\ last.emits # <<>>
    /\ last.arg.guestId \in rooms[last.conn]
    /\ sessions # <<>> /\ messages # {}
    /\ Cardinality(ToAll(connected)) > 1

\* the invocation whose step was taken last
LastInvocation == {h \in inflight : h.op = last.op}

UserMessagesOf(op) == {m \in messages : m.op = op /\ m.sender = "user"}

SameLetter(a, b) == a = b \/ {a, b} \in {{"a", "A"}, {"b", "B"}}

\* k occurs in text as a substring, case ignored
IContains(text, k) ==
    \E i \in 0..(Len(text) - Len(k)) : \A j \in 1..Len(k) : SameLetter(text[i + j], k[j])

\* the active intents of a store with a keyword occurring in text
Matching(store, text) ==
    {i \in DOMAIN store :
        store[i].isActive /\ \E k \in store[i].keywords : IContains(text, k)}

\* those of highest priority among M
Top(store, M) == {i \in M : \A j \in M : store[i].priority >= store[j].priority}

\* the message persisted last
Newest == {m \in messages : m.id = nMsg}

\* C6 as stated: for every active intent with a keyword occurring in the
\* message (case ignored), the bot message of send_message carries that
\* intent's response.
C6_EveryMatchingIntentAnswers ==
    last.act = "bot_save" =>
        \A i \in Matching(last.arg.seen, last.arg.text) :
            \E m \in Newest : m.sender = "bot" /\ m.message = last.arg.seen[i].response

\* C6 as amended: when some active intent has a keyword occurring in the
\* message (case ignored), the bot message persisted after the delay, in the
\* session of the user message, carries the response of the highest-priority
\* one of them.
C6_HighestMatchingIntentAnswers ==
    (last.act = "bot_save" /\ Matching(last.arg.seen, last.arg.text) # {}) =>
        \E m \in Newest :
            /\ m.sender = "bot"
            /\ m.op = last.op
            /\ \E u \in UserMessagesOf(last.op) : u.sessionId = m.sessionId
            /\ \E i \in Top(last.arg.seen, Matching(last.arg.seen, last.arg.text)) :
                  m.message = last.arg.seen[i].response

\* a bot message was persisted for a message that two active intents match
C6_Witness ==
    /\ last.act = "bot_save"
    /\ Cardinality(Matching(last.arg.seen, last.arg.text)) = 2
    /\ \E m \in Newest : m.message = <<"R1">>

\* C7: the matcher of send_message selects, among the intents active in the
\* store when the message is handled that have a keyword occurring in it
\* (case ignored), one of highest priority; it selects no inactive intent,
\* and none of lower priority while a higher one matches.
C7_HighestPriorityActiveMatch ==
    last.act = "send_intents" =>
        \A t \in LastInvocation :
            LET M == Matching(intents, t.text)
            IN /\ t.matched # None => t.matched \in Top(intents, M)
               /\ M # {} => t.matched # None

\* the matcher passed over an inactive matching intent of higher priority
C7_Witness ==
    /\ last.act = "send_intents"
    /\ \E t \in LastInvocation :
          /\ t.matched = "i2"
          /\ ~intents["i1"].isActive
          /\ \E k \in intents["i1"].keywords : IContains(t.text, k)

Emitted == {last.emits[n] : n \in 1..Len(last.emits)}

\* C9: a bot reply is emitted as 'message' to the connection that sent the
\* triggering send_message and to no other connection.
C9_BotReplyOnlyToSender ==
    \A e \in Emitted :
        (e.event = "message" /\ e.data.sender = "bot") => e.to \subseteq {last.conn}

NonDecreasing(seq) ==
    \A n \in 1..(Len(seq) - 1) : seq[n].createdAt <= seq[n + 1].createdAt

Listed(seq) == {seq[n] : n \in 1..Len(seq)}

\* C10: the message list of session_joined and the list of the history read
\* hold the session's messages in non-decreasing order of creation time.
C10_HistoryOrdered ==
    /\ \A sid \in AllocatedIds :
          LET H == History(messages, sid)
          IN /\ NonDecreasing(H)
             /\ Listed(H) = MessagesOf(messages, sid)
             /\ Len(H) = Cardinality(MessagesOf(messages, sid))
    /\ \A e \in Emitted :
          e.event = "session_joined" =>
             /\ NonDecreasing(e.data.messages)
             /\ e.data.sessionId # None =>
                   Listed(e.data.messages) = MessagesOf(messages, e.data.sessionId)

\* session_joined carried messages created at different times
C10_Witness ==
    /\ last.act = "join_history"
    /\ \E e \in Emitted :
          /\ e.event = "session_joined"
          /\ Len(e.data.messages) >= 2
          /\ e.data.messages[1].createdAt < e.data.messages[Len(e.data.messages)].createdAt

BotMessagesOf(op) == {m \in messages : m.op = op /\ m.sender = "bot"}

\* C8: every user message persisted by send_message is followed by exactly
\* one bot message in the same session: the fallback text when no active
\* intent has a keyword occurring in the message, a matching intent's
\* response otherwise; never two and never none.
C8_ExactlyOneBotReply ==
    /\ [](\A k \in 1..nOps :
            /\ Cardinality(BotMessagesOf(k)) <= 1
            /\ \A b \in BotMessagesOf(k) :
                  \E u \in UserMessagesOf(k) : u.sessionId = b.sessionId)
    /\ [](last.act = "bot_save" =>
            \E m \in Newest :
               LET M == Matching(last.arg.seen, last.arg.text)
               IN /\ m.sender = "bot"
                  /\ M = {} => m.message = Fallback
                  /\ M # {} => /\ m.message # Fallback
                               /\ \E i \in M : m.message = last.arg.seen[i].response)
    /\ \A k \in 1..MaxOpsLive :
          (UserMessagesOf(k) # {}) ~> (Cardinality(BotMessagesOf(k)) = 1)

\* C11: a session soft-deleted by delete_session (isDeleted = true) is in no
\* session listing, whatever the status filter, in any state after the delete.
C11_DeletedNeverListed ==
    \A id \in DOMAIN sessions : \A status \in StatusVals :
        sessions[id].isDeleted =>
            \A n \in 1..Len(ListSessions(sessions, status)) :
                ListSessions(sessions, status)[n] # id

\* the sessions delete_session is to resolve for a sessionId: the one with
\* that storage id, otherwise those whose socketId it is
DeleteTargets(store, sid) ==
    IF sid \in DOMAIN store THEN {sid}
    ELSE {id \in DOMAIN store : store[id].socketId = sid}

\* the sessionId of the delete_session invocation whose last step is taken
DeleteSessionEnding ==
    {sid \in AllocatedIds \cup Conns \cup {StrayId} :
        \/ /\ last'.act \in {"delete_session", "delete_session_error"}
           /\ last'.arg.sessionId = sid
           /\ ~\E h \in inflight' : h.op = last'.op
        \/ /\ last'.act = "delete_session_fallback"
           /\ \E h \in inflight : h.op = last'.op /\ h.doc.id = sid}

\* C12: delete_session resolves its target by storage id and otherwise by
\* socketId and changes only isDeleted (to true) and isActive (to false) of
\* that one session; no session and no message is removed or modified, and
\* the history of every session reads as before.
C12_DeleteSessionFrame ==
    [][/\ last'.act \in {"delete_session", "delete_session_error",
                         "delete_session_fallback"} =>
             /\ messages' = messages
             /\ DOMAIN sessions' = DOMAIN sessions
             /\ \A id \in DOMAIN sessions : History(messages', id) = History(messages, id)
       /\ \A sid \in DeleteSessionEnding :
             IF DeleteTargets(sessions, sid) = {}
             THEN sessions' = sessions
             ELSE \E t \in DeleteTargets(sessions, sid) :
                     sessions' = [sessions EXCEPT ![t].isDeleted = TRUE,
                                                  ![t].isActive = FALSE]]_vars

\* the fields of a message that are fixed when it is created
Fixed(m) == [id |-> m.id, sender |-> m.sender, message |-> m.message,
             sessionId |-> m.sessionId, createdAt |-> m.createdAt]

SessionsWithGuest(store, g) == {id \in DOMAIN store : store[id].guestId = g}

\* C14: after end_chat({guestId}) for a guest id that matches a session, the
\* persisted session has isActive = false, endedByUser = true and an end
\* timestamp, it still exists, and no message was deleted or modified.
C14_EndChatStampsSession ==
    [][(/\ last'.act = "end_chat"
        /\ Truthy(last'.arg.guestId)
        /\ SessionsWithGuest(sessions, last'.arg.guestId) # {}) =>
          /\ DOMAIN sessions' = DOMAIN sessions
          /\ messages' = messages
          /\ \E id \in SessionsWithGuest(sessions, last'.arg.guestId) :
                /\ ~sessions'[id].isActive
                /\ "endedByUser" \in DOMAIN sessions'[id]
                /\ sessions'[id].endedByUser
                /\ "endedAt" \in DOMAIN sessions'[id]]_vars

\* C15: end_chat with a guest id that matches no session, or without a guest
\* id, changes no session and no message and emits nothing: no chat_ended to
\* the caller, no user_ended_chat to anyone.
C15_EndChatNoMatchNoOp ==
    [][(/\ last'.act = "end_chat"
        /\ \/ ~Truthy(last'.arg.guestId)
           \/ SessionsWithGuest(sessions, last'.arg.guestId) = {}) =>
          /\ sessions' = sessions
          /\ messages' = messages
          /\ inflight' = inflight
          /\ last'.emits = <<>>]_vars

\* an end_chat without guest id has run while an active session without
\* guest id exists
C15_Witness ==
    /\ last.act = "end_chat"
    /\ ~Truthy(last.arg.guestId)
    /\ \E id \in DOMAIN sessions : sessions[id].guestId = None /\ sessions[id].isActive

\* the bot replies scheduled by send_message number k whose sender has
\* disconnected before the delay elapsed
OrphanTimers(k) ==
    {t \in inflight : t.op = k /\ t.pc = "timer" /\ ~connected[t.conn]}

\* C16: disconnect changes no session and no message and cancels nothing; a
\* bot reply scheduled before the sender disconnected is still persisted to
\* the session when the delay elapses, and its emit, which reaches nobody on
\* that connection, ends the callback without an error.
C16_DisconnectCancelsNothing ==
    /\ [][last'.act = "disconnect" =>
             /\ sessions' = sessions
             /\ messages' = messages
             /\ inflight' = inflight]_vars
    /\ [][\A t \in inflight :
             (t.pc = "timer" /\ ~connected[t.conn] /\ t \notin inflight') =>
                /\ last'.act = "bot_save"
                /\ \E m \in messages' \ messages :
                      /\ m.sender = "bot" /\ m.op = t.op
                      /\ m.sessionId = t.doc.id /\ m.message = t.reply
                /\ t.matched = None =>
                      \A n \in 1..Len(last'.emits) : t.conn \notin last'.emits[n].to]_vars
    /\ \A k \in 1..MaxOpsLive :
          (OrphanTimers(k) # {}) ~> (BotMessagesOf(k) # {})

\* the timer of a sender that had disconnected has fired and saved its reply
C16_Witness ==
    /\ last.act = "bot_save"
    /\ ~connected[last.conn]
    /\ \E m \in Newest : m.sender = "bot" /\ m.op = last.op

\* the connected members of a room: the sockets that joined it and the
\* socket whose id is the room's name
Members(room) == {c \in Conns : connected[c] /\ (room \in rooms[c] \/ c = room)}

\* C17: when admin_reply({sessionId, message}) has run to its end, exactly
\* one message of that invocation is persisted, with sender admin, isRead
\* false and that sessionId; the session's lastActivity is the time of the
\* update and nothing else of any session changed; 'message' went to the
\* connected members of the room named sessionId and admin_message_sent to
\* the replying connection only.
C17_AdminReplyEffects ==
    [][last'.act = "admin_reply_update" =>
         \E h \in inflight :
            /\ h.op = last'.op
            /\ h \notin inflight'
            /\ messages' = messages
            /\ \E m \in messages :
                  /\ {n \in messages : n.op = h.op} = {m}
                  /\ m.sender = "admin" /\ ~m.isRead /\ m.sessionId = h.doc.id
                  /\ m.message = h.text
            /\ IF h.doc.id \in DOMAIN sessions
               THEN sessions' = [sessions EXCEPT ![h.doc.id].lastActivity = now]
               ELSE sessions' = sessions
            /\ Len(last'.emits) = 2
            /\ last'.emits[1].event = "message"
            /\ last'.emits[1].to = Members(h.doc.id)
            /\ last'.emits[2].event = "admin_message_sent"
            /\ last'.emits[2].to = {h.conn}]_vars

\* an admin_reply to a session with an older user message has completed: its
\* message reached a member of the room and the session's lastActivity moved
C17_Witness ==
    /\ last.act = "admin_reply_update"
    /\ last.emits[1].to # {}
    /\ \E m, u \in messages :
          /\ m.op = last.op /\ m.sender = "admin"
          /\ m.sessionId \in DOMAIN sessions
          /\ u.sessionId = m.sessionId /\ u.sender = "user"
          /\ sessions[m.sessionId].lastActivity = now
          /\ u.createdAt # now

\* the steps of a join_session that found a session, with the session's id
JoinFoundStep(h, id) ==
    /\ last'.act \in {"join_save", "join_history"}
    /\ h \in inflight /\ h.op = last'.op /\ id = h.doc.id

C19_IdentityImmutable ==
    [][\A id \in DOMAIN sessions :
          /\ id \in DOMAIN sessions'
          /\ sessions'[id].userId = sessions[id].userId
          /\ sessions'[id].guestId = sessions[id].guestId]_vars

\* a session of user u1 without guest id was written by a request that
\* carried u1 together with a guest id
C19_Witness ==
    /\ last.act \in {"join_save", "send_sess"}
    /\ \E h \in inflight : \E id \in DOMAIN sessions :
          /\ h.op = last.op /\ h.doc.id = id
          /\ h.userId = "u1" /\ h.guestId = "g1"
          /\ h.sess.id = id
          /\ sessions[id].userId = "u1" /\ sessions[id].guestId = None

\* the acts of a handler that ended in its catch block
HandlerErrorActs == {"join_error", "send_error", "end_chat_error", "admin_reply_error",
                     "delete_message_error", "delete_session_error"}

\* C20: when a persistence call fails inside a socket handler, that handler
\* invocation emits no event to any connection, neither before nor after the
\* failure, and no event named error is ever emitted.
C20_FailureEmitsNothing ==
    /\ [][last'.act \in HandlerErrorActs =>
             /\ last'.emits = <<>>
             /\ \A h \in inflight : h.op = last'.op => h.emitted = 0]_vars
    /\ [](\A n \in 1..Len(last.emits) : last.emits[n].event # "error")

\* the events meant for the admin dashboard
AdminEvents == {"admin_new_message", "user_ended_chat", "session_deleted"}

\* C21: admin_new_message, user_ended_chat and session_deleted are delivered
\* to every connection that is connected when they are emitted, whether or
\* not it identified itself or joined a room.
C21_AdminEventsReachEveryone ==
    \A n \in 1..Len(last.emits) :
        last.emits[n].event \in AdminEvents =>
            last.emits[n].to = {c \in Conns : connected[c]}

\* an admin event reached a connection that never identified itself and is
\* in no room
C21_Witness ==
    \E n \in 1..Len(last.emits) : \E c \in Conns :
        /\ last.emits[n].event \in AdminEvents
        /\ c \in last.emits[n].to
        /\ c # last.conn
        /\ rooms[c] = {}
        /\ cache[c].userId = None /\ cache[c].guestId = None

-----------------------------------------------------------------------------
(* recognizeIntent *)

\* the number of stemmed tokens of the message among the stemmed keywords of
\* the intent d, and the number of its keywords
Overlap(message, d) ==
    LET tokens == ProcessMessage(message)
    IN Cardinality({n \in 1..Len(tokens) :
           \E kw \in d.keywords : tokens[n] = Stem(ToLowerCase(kw))})
Keywords(d) == Cardinality(d.keywords)

\* the score of a is below that of b, is that of b, reaches 0.30
ScoreBelow(message, a, b) ==
    Overlap(message, a) * Keywords(b) < Overlap(message, b) * Keywords(a)
ScoreSame(message, a, b) ==
    Overlap(message, a) * Keywords(b) = Overlap(message, b) * Keywords(a)
Reaches30(message, d) == 100 * Overlap(message, d) >= 30 * Keywords(d)

C23_CallsUseStoredIntents ==
    last.act \in {"recognize_scored", "recognize_none"} =>
        last.arg.loaded = LoadIntents(intents)

\* the step taken is the end of a message matched to the intent i: the bot
\* reply of the inline matcher has been persisted and its count step runs,
\* or recognizeIntent returns i
MatchedTo(i) ==
    /\ last' # last
    /\ \/ /\ last'.act = "bot_inc"
          /\ i \in Top(last'.arg.seen, Matching(last'.arg.seen, last'.arg.text))
       \/ /\ last'.act = "recognize_return"
          /\ \E d \in svc'.result : d.id = i

\* C28: the matchCount of an intent goes up by exactly one with each message
\* matched to it, by the inline matcher or by recognizeIntent, and no other
\* step changes it, however the handling of the messages interleaves
C28_MatchCountCountsMatches ==
    [][\A i \in DOMAIN intents \cap DOMAIN intents' :
          intents'[i].matchCount =
              intents[i].matchCount + (IF MatchedTo(i) THEN 1 ELSE 0)]_vars

\* two messages matched to one intent were in hand at once, and both are
\* counted
C28_Witness ==
    /\ last.act \in {"bot_inc", "recognize_return"}
    /\ \E i \in DOMAIN intents : intents[i].matchCount = 2
    /\ \E m1, m2 \in messages :
          m1.sender = "user" /\ m2.sender = "bot" /\ m1.op > m2.op /\ m1.id < m2.id

\* C24: every persisted message belongs to a session that exists, however
\* the REST session delete, the expiry of sessions, admin_reply,
\* send_message and the bot-reply timers interleave
C24_MessagesHaveSessions ==
    \A m \in messages : m.sessionId \in DOMAIN sessions

\* C25: a session with isDeleted = true has isActive = false: once
\* delete_session has soft-deleted it, no join_session, send_message or
\* admin_reply makes it active again
C25_DeletedIsInactive ==
    \A id \in DOMAIN sessions : sessions[id].isDeleted => ~sessions[id].isActive

\* the invocations whose connection has resolved the session they hold:
\* join_session past its save, send_message past its lookup or creation,
\* and the bot timers of send_message
HoldsSession(h) ==
    \/ h.kind = "join" /\ h.pc = "history"
    \/ h.kind = "send" /\ h.pc \in {"saveMsg", "saveSess", "intents"}
    \/ h.kind = "bot"

\* C26: a connection that has resolved the session S, by join_session or by
\* send_message whether it created S or found it, is in the room named by
\* S's storage id for as long as it is connected, and so receives every
\* admin_reply to S
C26_ResolversAreRoomMembers ==
    \A h \in inflight :
        (HoldsSession(h) /\ connected[h.conn]) => h.doc.id \in rooms[h.conn]

\* the bot replies whose 'message' event has gone out: they are persisted and
\* their callback has ended
BotEmitted == {b \in messages : b.sender = "bot" /\ ~\E h \in inflight : h.op = b.op}

\* C27 as stated: of two user messages that one connection sends to one
\* session, the earlier is persisted first, and the bot reply to the earlier
\* is persisted and emitted before the bot reply to the later, under every
\* interleaving.
C27_RepliesInSendingOrder ==
    /\ \A m1, m2 \in messages :
          (m1.sender = m2.sender /\ m1.sessionId = m2.sessionId /\ m1.op < m2.op)
              => m1.id < m2.id
    /\ \A h \in inflight : \A m2 \in messages :
          (h.op < m2.op /\ h.doc.id = m2.sessionId)
              => \/ m2.sender = "user" /\ h.pc \notin {"create", "saveMsg"}
                 \/ m2.sender = "bot" /\ h.pc = "inc" /\ m2 \notin BotEmitted

\* C27 as the code has it: each user message is persisted before the bot
\* reply to it, in the same session, and each bot reply is persisted before
\* it is emitted; the replies to two messages come in either order
C27_ReplyFollowsItsMessage ==
    /\ \A b \in messages :
          b.sender = "bot" =>
              \E u \in messages :
                 /\ u.sender = "user" /\ u.op = b.op
                 /\ u.sessionId = b.sessionId /\ u.id < b.id
    /\ \A e \in Emitted :
          (e.event = "message" /\ e.data.sender = "bot") =>
              \E b \in messages : b.sender = "bot" /\ b.op = e.data.op

\* the reply to the later of two messages of one session was persisted and
\* emitted before the reply to the earlier, which is emitted now
C27_Witness ==
    /\ last.act = "bot_inc"
    /\ \E b1, b2 \in BotEmitted :
          /\ b1.op = last.op /\ b1.op < b2.op
          /\ b1.sessionId = b2.sessionId /\ b2.id < b1.id

\* C29: an OTP stored by sendOtp passes the comparison of verifyOtp at most
\* once: two verifications that passed, one after the other or at the same
\* time, passed on OTPs from different sendOtp calls
C29_OtpAcceptedOnce ==
    \A p, q \in otp.passed : p.issue = q.issue => p.op = q.op

\* C30: verifyOtp never accepts an OTP more than five minutes after sendOtp
\* stored it: no verification passes once the stored expiresAt has passed
C30_OtpNotAcceptedAfterExpiry ==
    \A p \in otp.passed : p.at <= p.expiresAt

=============================================================================
